---- MODULE Spec2Model ----
(***************************************************************************)
(* The list environments of environments/list_env.py: ListEnv (two         *)
(* pointers, bubble sort) and QuickSortListEnv (three pointers and a       *)
(* stack, quicksort).  Pointers are 0-based as in the source; a scratchpad *)
(* is a TLA+ sequence, so element i of the source is arr[i + 1].           *)
(***************************************************************************)
EXTENDS Integers, Sequences, FiniteSets, TLC

\* ---------------------------------------------------------------- bounds
\* Largest list length an environment is constructed with.
MaxLen == 3
\* Largest list length in the runs that follow the stack through PUSH and POP.
MaxStackLen == 5
\* reset_env draws the scratchpad's digits from 0..MaxDigit (the source: 0..9).
MaxDigit == 0
\* Largest number of three-element frames the model lets the stack hold.
MaxFrames == 2
\* In the runs that sort, the scratchpad's digits are drawn from 0..SortMaxDigit.
SortMaxDigit == 1
\* The tuples a postcondition is evaluated on hold digits of 0..PostMaxDigit.
PostMaxDigit == 1
\* Largest list length in the runs that read observations of all ten digits.
ObsMaxLen == 2
\* Largest number of primitives recorded after a program is entered.
MaxRecorded == 3
\* Largest list length in the runs that follow the body of BUBBLE and BUBBLESORT.
MaxBodyLen == 4
\* Largest list length _partition is called on.
MaxPartLen == 4
\* _partition is called on arrays of digits 0..PartMaxDigit.
PartMaxDigit == 2

\* ------------------------------------------------------ program constants
\* the basis of the one-hot encoding of a digit
Basis == 10
\* reset_env draws each element with np.random.randint(10, ...)
NumDigits == 10

VARIABLES
    variant,            \* which class the instance is: "ListEnv" or "QuickSortListEnv"
    hierarchy,          \* constructor argument hierarchy
    length,             \* self.length
    scratchpad_ints,    \* self.scratchpad_ints
    p1_pos,             \* self.p1_pos
    p2_pos,             \* self.p2_pos
    p3_pos,             \* self.p3_pos (QuickSortListEnv only; 0 otherwise)
    prog_stack,         \* self.prog_stack (QuickSortListEnv only; <<>> otherwise)
    has_been_reset,     \* self.has_been_reset
    last_call,          \* the method called last
    last_arg,           \* the program name that call was made for, or NoTask
    raised,             \* the exception the last call ended with, or "none"
    init_state,         \* a tuple a caller holds from an earlier get_state(), or NoState
    shared,             \* TRUE when self.prog_stack is the very list object init_state[4]
    post,               \* what check_postcondition returned, when it was the last call; else NoPost
    trace               \* the program entered at init_state and what was executed since, or NoTrace

envvars == <<scratchpad_ints, p1_pos, p2_pos, p3_pos, prog_stack, has_been_reset>>
cfgvars == <<variant, hierarchy, length>>
vars == <<variant, hierarchy, length, scratchpad_ints, p1_pos, p2_pos, p3_pos,
          prog_stack, has_been_reset, last_call, last_arg, raised,
          init_state, shared, post, trace>>

Variants == {"ListEnv", "QuickSortListEnv"}
Quick == variant = "QuickSortListEnv"
Digits == 0..MaxDigit
Positions(L) == 0..(L - 1)
Scratchpads(L) == [1..L -> Digits]
NoState == [none |-> TRUE]
NoPost == [prog |-> "none", value |-> FALSE]
NoTask == "none"
NoTrace == <<"none">>

\* ------------------------------------------------------- program registry
ListEnvHierarchy ==
    [PTR_1_LEFT |-> 0, STOP |-> -1, PTR_2_LEFT |-> 0, PTR_1_RIGHT |-> 0,
     PTR_2_RIGHT |-> 0, SWAP |-> 0, RSHIFT |-> 1, LSHIFT |-> 1, COMPSWAP |-> 1,
     RESET |-> 2, BUBBLE |-> 2, BUBBLESORT |-> 3]

QuickSortHierarchy ==
    [PTR_1_LEFT |-> 0, STOP |-> -1, PTR_2_LEFT |-> 0, PTR_1_RIGHT |-> 0,
     PTR_2_RIGHT |-> 0, PTR_3_LEFT |-> 0, PTR_3_RIGHT |-> 0, SWAP |-> 0,
     SWAP_2 |-> 0, SWAP_3 |-> 0, PUSH |-> 0, POP |-> 0, RSHIFT |-> 1,
     LSHIFT |-> 1, COMPSWAP_PARTITION |-> 1, RESET |-> 2, PARTITION |-> 2,
     QUICKSORT |-> 3]

FlatLibrary ==
    [PTR_1_LEFT |-> 0, STOP |-> -1, PTR_2_LEFT |-> 0, PTR_1_RIGHT |-> 0,
     PTR_2_RIGHT |-> 0, SWAP |-> 0, BUBBLESORT |-> 1]

\* self.programs_library: program name -> level
programs_library ==
    IF ~hierarchy THEN FlatLibrary
    ELSE IF Quick THEN QuickSortHierarchy ELSE ListEnvHierarchy

\* the keys of self.prog_to_func
prog_to_func ==
    IF hierarchy /\ Quick
    THEN {"STOP", "PTR_1_LEFT", "PTR_2_LEFT", "PTR_1_RIGHT", "PTR_2_RIGHT",
          "PTR_3_LEFT", "PTR_3_RIGHT", "PUSH", "POP", "SWAP", "SWAP_2", "SWAP_3"}
    ELSE {"STOP", "PTR_1_LEFT", "PTR_2_LEFT", "PTR_1_RIGHT", "PTR_2_RIGHT", "SWAP"}

\* the keys of self.prog_to_postcondition
prog_to_postcondition ==
    IF ~hierarchy THEN {"BUBBLESORT"}
    ELSE IF Quick
         THEN {"RSHIFT", "LSHIFT", "COMPSWAP_PARTITION", "RESET", "PARTITION", "QUICKSORT"}
         ELSE {"RSHIFT", "LSHIFT", "COMPSWAP", "RESET", "BUBBLE", "BUBBLESORT"}

\* ------------------------------------------------------------ primitives
\* arr[[i, j]] = arr[[j, i]]: the right-hand side is a copy, so i = j is a no-op
\* SwapElems written as two assignments in a row, without the copy
SwapElemsInPlace(arr, i, j) == [arr EXCEPT ![i + 1] = arr[j + 1]]
SwapElems(arr, i, j) == [arr EXCEPT ![i + 1] = arr[j + 1], ![j + 1] = arr[i + 1]]

_ptr_1_left == IF p1_pos > 0 THEN p1_pos - 1 ELSE p1_pos
_ptr_2_left == IF p2_pos > 0 THEN p2_pos - 1 ELSE p2_pos
_ptr_3_left == IF p3_pos > 0 THEN p3_pos - 1 ELSE p3_pos
\* _ptr_1_right without its test of the right end
_ptr_1_right_unclamped == p1_pos + 1
_ptr_1_right == IF p1_pos < length - 1 THEN p1_pos + 1 ELSE p1_pos
_ptr_2_right == IF p2_pos < length - 1 THEN p2_pos + 1 ELSE p2_pos
\* _ptr_3_right with the test _ptr_2_right makes
_ptr_3_right_testing_p2 == IF p2_pos < length - 1 THEN p3_pos + 1 ELSE p3_pos
_ptr_3_right == IF p3_pos < length - 1 THEN p3_pos + 1 ELSE p3_pos

_swap == SwapElems(scratchpad_ints, p1_pos, p2_pos)
_swap_2 == SwapElems(scratchpad_ints, p2_pos, p3_pos)
\* _swap_3 with the index lists of _swap_2
_swap_3_as_swap_2 == SwapElems(scratchpad_ints, p2_pos, p3_pos)
_swap_3 == SwapElems(scratchpad_ints, p3_pos, p1_pos)

\* what _push appends to the stack
PushRight == IF p3_pos + 1 < p2_pos THEN <<p3_pos + 1, p2_pos, p3_pos + 1>> ELSE <<>>
\* PushLeft without its third append
PushLeftPair == IF p3_pos - 1 > 0 THEN <<p1_pos, p3_pos - 1>> ELSE <<>>
PushLeft == IF p3_pos - 1 > 0 THEN <<p1_pos, p3_pos - 1, p1_pos>> ELSE <<>>
_push == prog_stack \o PushRight \o PushLeft

\* list.pop(), three times: the registers in the order they are loaded
_pop_p1 == prog_stack[Len(prog_stack)]
\* _pop_p2 reading the top of the stack a second time
_pop_p2_top == prog_stack[Len(prog_stack)]
_pop_p2 == prog_stack[Len(prog_stack) - 1]
_pop_p3 == prog_stack[Len(prog_stack) - 2]
_pop_rest == SubSeq(prog_stack, 1, Len(prog_stack) - 3)

\* list.append and list.pop change the list object itself: a tuple whose stack
\* is that same object changes with it
StackWrite(new) ==
    /\ prog_stack' = new
    /\ init_state' = IF shared THEN [init_state EXCEPT !.prog_stack = new] ELSE init_state
    /\ UNCHANGED shared

Returned(call, task, exc) == last_call' = call /\ last_arg' = task /\ raised' = exc

\* a call that never returned leaves the single-threaded caller stuck in it
Running == raised # "hang"

\* the record of a program being followed, with one more entry; records longer
\* than MaxRecorded entries are given up
Record(prog) ==
    IF trace = NoTrace \/ Len(trace) > MaxRecorded THEN NoTrace ELSE Append(trace, prog)

\* self.prog_to_func[prog]() for a primitive: the frame every primitive shares
Primitive(prog) ==
    /\ Running
    /\ prog \in prog_to_func
    /\ Returned("act", NoTask, "none")
    /\ post' = NoPost
    /\ trace' = Record(prog)
    /\ UNCHANGED <<cfgvars, has_been_reset>>

STOP ==
    /\ Primitive("STOP")
    /\ UNCHANGED <<scratchpad_ints, p1_pos, p2_pos, p3_pos, prog_stack, init_state, shared>>

PTR_1_LEFT ==
    /\ Primitive("PTR_1_LEFT")
    /\ p1_pos' = _ptr_1_left
    /\ UNCHANGED <<scratchpad_ints, p2_pos, p3_pos, prog_stack, init_state, shared>>

PTR_2_LEFT ==
    /\ Primitive("PTR_2_LEFT")
    /\ p2_pos' = _ptr_2_left
    /\ UNCHANGED <<scratchpad_ints, p1_pos, p3_pos, prog_stack, init_state, shared>>

\* PTR_3_LEFT with the decrement _ptr_2_left makes
PTR_3_LEFT_moves_p2 ==
    /\ Primitive("PTR_3_LEFT")
    /\ p2_pos' = IF p3_pos > 0 THEN p2_pos - 1 ELSE p2_pos
    /\ UNCHANGED <<scratchpad_ints, p1_pos, p3_pos, prog_stack, init_state, shared>>

PTR_3_LEFT ==
    /\ Primitive("PTR_3_LEFT")
    /\ p3_pos' = _ptr_3_left
    /\ UNCHANGED <<scratchpad_ints, p1_pos, p2_pos, prog_stack, init_state, shared>>

PTR_1_RIGHT ==
    /\ Primitive("PTR_1_RIGHT")
    /\ p1_pos' = _ptr_1_right
    /\ UNCHANGED <<scratchpad_ints, p2_pos, p3_pos, prog_stack, init_state, shared>>

PTR_2_RIGHT ==
    /\ Primitive("PTR_2_RIGHT")
    /\ p2_pos' = _ptr_2_right
    /\ UNCHANGED <<scratchpad_ints, p1_pos, p3_pos, prog_stack, init_state, shared>>

PTR_3_RIGHT ==
    /\ Primitive("PTR_3_RIGHT")
    /\ p3_pos' = _ptr_3_right
    /\ UNCHANGED <<scratchpad_ints, p1_pos, p2_pos, prog_stack, init_state, shared>>

SWAP ==
    /\ Primitive("SWAP")
    /\ scratchpad_ints' = _swap
    /\ UNCHANGED <<p1_pos, p2_pos, p3_pos, prog_stack, init_state, shared>>

SWAP_2 ==
    /\ Primitive("SWAP_2")
    /\ scratchpad_ints' = _swap_2
    /\ UNCHANGED <<p1_pos, p2_pos, p3_pos, prog_stack, init_state, shared>>

SWAP_3 ==
    /\ Primitive("SWAP_3")
    /\ scratchpad_ints' = _swap_3
    /\ UNCHANGED <<p1_pos, p2_pos, p3_pos, prog_stack, init_state, shared>>

PUSH ==
    /\ Primitive("PUSH")
    /\ Len(_push) <= 3 * MaxFrames
    /\ StackWrite(_push)
    /\ UNCHANGED <<scratchpad_ints, p1_pos, p2_pos, p3_pos>>

POP ==
    /\ Primitive("POP")
    /\ IF Len(prog_stack) >= 3
       THEN /\ p1_pos' = _pop_p1
            /\ p2_pos' = _pop_p2
            /\ p3_pos' = _pop_p3
            /\ StackWrite(_pop_rest)
       ELSE UNCHANGED <<p1_pos, p2_pos, p3_pos, prog_stack, init_state, shared>>
    /\ UNCHANGED scratchpad_ints
\* -------------------------------------------------------- state tuples
\* get_state() forgetting the stack
get_state_without_stack ==
    IF Quick
    THEN [scratchpad_ints |-> scratchpad_ints, p1_pos |-> p1_pos, p2_pos |-> p2_pos,
          p3_pos |-> p3_pos, prog_stack |-> <<>>]
    ELSE [scratchpad_ints |-> scratchpad_ints, p1_pos |-> p1_pos, p2_pos |-> p2_pos]

\* get_state(): copies of the scratchpad and of the stack, and the pointers
get_state ==
    IF Quick
    THEN [scratchpad_ints |-> scratchpad_ints, p1_pos |-> p1_pos, p2_pos |-> p2_pos,
          p3_pos |-> p3_pos, prog_stack |-> prog_stack]
    ELSE [scratchpad_ints |-> scratchpad_ints, p1_pos |-> p1_pos, p2_pos |-> p2_pos]

\* compare_state stopping after the second pointer, as ListEnv's does
compare_state_two_pointers(state1, state2) ==
    /\ state1.scratchpad_ints = state2.scratchpad_ints
    /\ state1.p1_pos = state2.p1_pos
    /\ state1.p2_pos = state2.p2_pos

compare_state(state1, state2) ==
    /\ state1.scratchpad_ints = state2.scratchpad_ints
    /\ state1.p1_pos = state2.p1_pos
    /\ state1.p2_pos = state2.p2_pos
    /\ Quick => /\ state1.p3_pos = state2.p3_pos
                /\ state1.prog_stack = state2.prog_stack

\* arr[lo:hi] of a numpy array
Slice(arr, lo, hi) ==
    SubSeq(arr, lo + 1, IF hi < Len(arr) THEN hi ELSE Len(arr))

\* np.all(a <= b) for two arrays of one length
AllLessEq(a, b) == \A k \in 1..Len(a) : a[k] <= b[k]

Min(a, b) == IF a < b THEN a ELSE b
Max(a, b) == IF a < b THEN b ELSE a

\* ---------------------------------------------------------- preconditions
_compswap_precondition ==
    /\ p1_pos < length - 1
    /\ p2_pos = p1_pos \/ p2_pos = p1_pos + 1

_lshift_precondition == p1_pos > 0 \/ p2_pos > 0 \/ (Quick /\ p3_pos > 0)

_rshift_precondition ==
    p1_pos < length - 1 \/ p2_pos < length - 1 \/ (Quick /\ p3_pos < length - 1)

_bubble_precondition == p1_pos = 0 /\ (p2_pos = 0 \/ p2_pos = 1)

_reset_precondition == TRUE

_bubblesort_precondition == p1_pos = 0 /\ p2_pos = 0

_compswap_partition_precondition == p1_pos <= p2_pos /\ p3_pos = p1_pos

_partition_precondition == p1_pos <= p2_pos /\ p3_pos = p1_pos

_quicksort_precondition == p1_pos = 0 /\ p2_pos = length - 1 /\ p3_pos = 0

\* self.prog_to_precondition[prog]()
check_precondition(prog) ==
    CASE prog = "STOP" -> TRUE
      [] prog = "RSHIFT" -> _rshift_precondition
      [] prog = "LSHIFT" -> _lshift_precondition
      [] prog = "PUSH" -> TRUE
      [] prog = "POP" -> Len(prog_stack) >= 3
      [] prog = "COMPSWAP" -> _compswap_precondition
      [] prog = "COMPSWAP_PARTITION" -> _compswap_partition_precondition
      [] prog = "RESET" -> _reset_precondition
      [] prog = "BUBBLE" -> _bubble_precondition
      [] prog = "BUBBLESORT" -> _bubblesort_precondition
      [] prog = "PARTITION" -> _partition_precondition
      [] prog = "QUICKSORT" -> _quicksort_precondition
      [] prog = "PTR_1_LEFT" -> p1_pos > 0
      [] prog = "PTR_2_LEFT" -> p2_pos > 0
      [] prog = "PTR_3_LEFT" -> p3_pos > 0
      [] prog = "PTR_1_RIGHT" -> p1_pos < length - 1
      [] prog = "PTR_2_RIGHT" -> p2_pos < length - 1
      [] prog = "PTR_3_RIGHT" -> p3_pos < length - 1
      [] prog = "SWAP" -> p1_pos # p2_pos
      [] prog = "SWAP_2" -> p2_pos # p3_pos
      [] prog = "SWAP_3" -> p3_pos # p1_pos

\* --------------------------------------------------------- postconditions
_lshift_postcondition(init, state) ==
    IF Quick
    THEN \* line 707 assigns where line 726 accumulates: the scratchpads'
         \* comparison of line 706 is dropped
         /\ init.prog_stack = state.prog_stack
         /\ state.p1_pos = (IF init.p1_pos > 0 THEN init.p1_pos - 1 ELSE init.p1_pos)
         /\ state.p2_pos = (IF init.p2_pos > 0 THEN init.p2_pos - 1 ELSE init.p2_pos)
         /\ state.p3_pos = (IF init.p3_pos > 0 THEN init.p3_pos - 1 ELSE init.p3_pos)
    ELSE /\ init.scratchpad_ints = state.scratchpad_ints
         /\ state.p1_pos = (IF init.p1_pos > 0 THEN init.p1_pos - 1 ELSE init.p1_pos)
         /\ state.p2_pos = (IF init.p2_pos > 0 THEN init.p2_pos - 1 ELSE init.p2_pos)

_rshift_postcondition(init, state) ==
    /\ init.scratchpad_ints = state.scratchpad_ints
    /\ Quick => init.prog_stack = state.prog_stack
    /\ state.p1_pos = (IF init.p1_pos < length - 1 THEN init.p1_pos + 1 ELSE init.p1_pos)
    /\ state.p2_pos = (IF init.p2_pos < length - 1 THEN init.p2_pos + 1 ELSE init.p2_pos)
    /\ Quick =>
         state.p3_pos = (IF init.p3_pos < length - 1 THEN init.p3_pos + 1 ELSE init.p3_pos)

\* _reset_postcondition as ListEnv has it: the third pointer is not looked at
_reset_postcondition_two_pointers(init, state) ==
    /\ init.scratchpad_ints = state.scratchpad_ints
    /\ Quick => init.prog_stack = state.prog_stack
    /\ state.p1_pos = 0 /\ state.p2_pos = 0

_reset_postcondition(init, state) ==
    /\ init.scratchpad_ints = state.scratchpad_ints
    /\ Quick => init.prog_stack = state.prog_stack
    /\ state.p1_pos = 0 /\ state.p2_pos = 0
    /\ Quick => state.p3_pos = 0

_bubblesort_postcondition(init, state) ==
    AllLessEq(Slice(state.scratchpad_ints, 0, length - 1),
              Slice(state.scratchpad_ints, 1, length))

\* _quicksort_postcondition reading the snapshot's scratchpad, not the state's
_quicksort_postcondition_of_init(init, state) ==
    AllLessEq(Slice(init.scratchpad_ints, 0, length - 1),
              Slice(init.scratchpad_ints, 1, length))

_quicksort_postcondition(init, state) ==
    AllLessEq(Slice(state.scratchpad_ints, 0, length - 1),
              Slice(state.scratchpad_ints, 1, length))

\* _compswap_postcondition without the step that moves p2 off p1
_compswap_postcondition_p2_kept(init, state) ==
    LET idx_left == Min(init.p1_pos, init.p2_pos)
        idx_right == Max(init.p1_pos, init.p2_pos)
        arr == init.scratchpad_ints
        new_scratchpad_ints == IF arr[idx_left + 1] > arr[idx_right + 1]
                               THEN SwapElems(arr, idx_left, idx_right) ELSE arr
    IN  compare_state(state, [scratchpad_ints |-> new_scratchpad_ints,
                              p1_pos |-> init.p1_pos, p2_pos |-> init.p2_pos])

\* ListEnv._compswap_postcondition
_compswap_postcondition(init, state) ==
    LET new_p2_pos == IF init.p1_pos = init.p2_pos /\ init.p2_pos < length - 1
                      THEN init.p2_pos + 1 ELSE init.p2_pos
        idx_left == Min(init.p1_pos, new_p2_pos)
        idx_right == Max(init.p1_pos, new_p2_pos)
        arr == init.scratchpad_ints
        new_scratchpad_ints == IF arr[idx_left + 1] > arr[idx_right + 1]
                               THEN SwapElems(arr, idx_left, idx_right) ELSE arr
    IN  compare_state(state, [scratchpad_ints |-> new_scratchpad_ints,
                              p1_pos |-> init.p1_pos, p2_pos |-> new_p2_pos])

\* BubbleLoop ending one index early, for idx in range(0, self.length-2)
RECURSIVE BubbleLoopShort(_, _)
BubbleLoopShort(arr, idx) ==
    IF idx >= length - 2 THEN arr
    ELSE BubbleLoopShort(IF arr[idx + 2] < arr[idx + 1] THEN SwapElems(arr, idx, idx + 1) ELSE arr,
                         idx + 1)

\* the loop of _bubble_postcondition, from index idx on
RECURSIVE BubbleLoop(_, _)
BubbleLoop(arr, idx) ==
    IF idx >= length - 1 THEN arr
    ELSE BubbleLoop(IF arr[idx + 2] < arr[idx + 1] THEN SwapElems(arr, idx, idx + 1) ELSE arr,
                    idx + 1)

\* _bubble_postcondition with the pointers at the extreme left, as its comment has it
_bubble_postcondition_at_left(init, state) ==
    compare_state(state, [scratchpad_ints |-> BubbleLoop(init.scratchpad_ints, 0),
                          p1_pos |-> 0, p2_pos |-> 0])

\* ListEnv._bubble_postcondition
_bubble_postcondition(init, state) ==
    compare_state(state, [scratchpad_ints |-> BubbleLoop(init.scratchpad_ints, 0),
                          p1_pos |-> length - 1, p2_pos |-> length - 1])

\* the loop of _compswap_partition_postcondition, for idx in range(idx, stop):
\* <<new_scratchpad_ints, new_p1_pos>> when it ends
RECURSIVE CompswapPartitionLoop(_, _, _, _, _)
CompswapPartitionLoop(arr, new_p1_pos, new_p2_pos, idx, stop) ==
    IF idx >= stop THEN <<arr, new_p1_pos>>
    ELSE IF arr[idx + 1] < arr[new_p2_pos + 1]
         THEN CompswapPartitionLoop(SwapElems(arr, new_p1_pos + 1, idx),
                                    new_p1_pos + 1, new_p2_pos, idx + 1, stop)
         ELSE CompswapPartitionLoop(arr, new_p1_pos, new_p2_pos, idx + 1, stop)

_compswap_partition_postcondition(init, state) ==
    LET r == CompswapPartitionLoop(init.scratchpad_ints, init.p1_pos, init.p2_pos,
                                   init.p1_pos, init.p2_pos)
    IN  compare_state(state, [scratchpad_ints |-> r[1], p1_pos |-> r[2],
                              p2_pos |-> init.p2_pos, p3_pos |-> init.p2_pos - 1,
                              prog_stack |-> init.prog_stack])

\* the while loop of _partition: <<arr, l>> when it ends
RECURSIVE PartitionLoop(_, _, _, _, _)
PartitionLoop(arr, l, h, j, x) ==
    IF j >= h THEN <<arr, l>>
    ELSE IF arr[j + 1] <= x
         THEN PartitionLoop(SwapElems(arr, j, l), l + 1, h, j + 1, x)
         ELSE PartitionLoop(arr, l, h, j + 1, x)

\* _partition without the exchange that puts the pivot in its place
_partition_pivot_left_at_h(arr, l, h, j) ==
    LET r == PartitionLoop(arr, l, h, j, arr[h + 1])
    IN  <<r[1], l, h, r[2]>>

\* _partition(arr, l, h, j): <<arr, temp_l, h, l>>
_partition(arr, l, h, j) ==
    LET r == PartitionLoop(arr, l, h, j, arr[h + 1])
    IN  <<SwapElems(r[1], r[2], h), l, h, r[2]>>

\* _partition_postcondition calls _partition by its bare name, which a method
\* does not see: the call raises before anything is compared
PartitionRaises == "NameError"

\* self.prog_to_postcondition[prog](init_state, state): the exception it ends with
PostRaises(prog) == IF Quick /\ prog = "PARTITION" THEN PartitionRaises ELSE "none"

\* self.prog_to_postcondition[prog](init_state, state): the value it returns
PostValue(prog, init, state) ==
    CASE prog = "RSHIFT" -> _rshift_postcondition(init, state)
      [] prog = "LSHIFT" -> _lshift_postcondition(init, state)
      [] prog = "RESET" -> _reset_postcondition(init, state)
      [] prog = "COMPSWAP" -> _compswap_postcondition(init, state)
      [] prog = "BUBBLE" -> _bubble_postcondition(init, state)
      [] prog = "BUBBLESORT" -> _bubblesort_postcondition(init, state)
      [] prog = "COMPSWAP_PARTITION" -> _compswap_partition_postcondition(init, state)
      [] prog = "QUICKSORT" -> _quicksort_postcondition(init, state)
      [] OTHER -> FALSE

\* new_scratchpad_ints as the postcondition of the program leaves it: the array
\* its reference computation has written into
ReferenceArray(prog, init) ==
    CASE prog = "COMPSWAP" ->
           LET new_p2_pos == IF init.p1_pos = init.p2_pos /\ init.p2_pos < length - 1
                             THEN init.p2_pos + 1 ELSE init.p2_pos
               idx_left == Min(init.p1_pos, new_p2_pos)
               idx_right == Max(init.p1_pos, new_p2_pos)
               arr == init.scratchpad_ints
           IN  IF arr[idx_left + 1] > arr[idx_right + 1]
               THEN SwapElems(arr, idx_left, idx_right) ELSE arr
      [] prog = "BUBBLE" -> BubbleLoop(init.scratchpad_ints, 0)
      [] prog = "COMPSWAP_PARTITION" ->
           CompswapPartitionLoop(init.scratchpad_ints, init.p1_pos, init.p2_pos,
                                 init.p1_pos, init.p2_pos)[1]
      [] OTHER -> init.scratchpad_ints

\* SnapshotAfter for a postcondition that writes into init_state[0] itself
SnapshotWrittenInPlace(prog, init) ==
    [init EXCEPT !.scratchpad_ints = ReferenceArray(prog, init)]

\* the caller's tuple once the postcondition has returned: new_scratchpad_ints is
\* np.copy(init_state[0]), so the writes stay off the tuple's own array
SnapshotAfter(prog, init) == init

\* check_postcondition(prog, init_state, get_state()) with the tuple the caller holds
check_postcondition(prog) ==
    /\ Running
    /\ has_been_reset
    /\ init_state # NoState
    /\ prog \in prog_to_postcondition
    /\ post' = IF PostRaises(prog) = "none"
               THEN [prog |-> prog, value |-> PostValue(prog, init_state, get_state)]
               ELSE NoPost
    /\ Returned("check_postcondition", prog, PostRaises(prog))
    /\ init_state' = SnapshotAfter(prog, init_state)
    /\ UNCHANGED <<cfgvars, envvars, shared, trace>>

\* ------------------------------------------------------------- reset_env
\* np.random.randint(low, high): an integer of low..high-1; ValueError when the
\* range is empty
randint(low, high) == low..(high - 1)

\* the names reset_env has a branch for
SamplingRules ==
    IF Quick
    THEN {"BUBBLE", "BUBBLESORT", "PARTITION", "COMPSWAP_PARTITION", "QUICKSORT",
          "RESET", "LSHIFT", "RSHIFT", "COMPSWAP"}
    ELSE {"BUBBLE", "BUBBLESORT", "RESET", "LSHIFT", "RSHIFT", "COMPSWAP"}

\* the third pointer a draw ranges over: ListEnv has none
Third == IF Quick THEN Positions(length) ELSE {0}

\* StackDraws drawing stack entries up to length, one past the last index
StackDrawsPastEnd ==
    IF length % 2 = 1 THEN [1..3 -> randint(0, length + 1)] ELSE {<<>>}

\* the stacks list(np.random.randint(self.length-1, size=3*(self.length%2))) makes
StackDraws ==
    IF length % 2 = 1 THEN [1..3 -> randint(0, length - 1)] ELSE {<<>>}

\* the draws of the PARTITION / COMPSWAP_PARTITION branch
PartitionDraws ==
    {t \in Positions(length) \X (Positions(length) \ {0}) \X Positions(length) :
        t[1] \in randint(0, t[2]) /\ t[3] = t[1]}

\* the draws the loop of the RESET and LSHIFT branches accepts
NotAllLeftDraws ==
    {t \in Positions(length) \X Positions(length) \X Third :
        ~(t[1] = 0 /\ t[2] = 0 /\ t[3] = 0)}

\* NotAllRightDraws with a loop that breaks on every draw
EveryDraw == Positions(length) \X Positions(length) \X Third

\* the draws the loop of the RSHIFT branch accepts
NotAllRightDraws ==
    {t \in Positions(length) \X Positions(length) \X Third :
        ~(t[1] = length - 1 /\ t[2] = length - 1 /\ (Quick => t[3] = length - 1))}

\* the draws of the COMPSWAP branch
CompswapDraws ==
    {t \in randint(0, length - 1) \X Positions(length) \X {0} :
        t[2] \in {t[1], t[1] + 1}}

\* PointerDraws with the LSHIFT loop leaving on its first draw, whatever it is
PointerDrawsFirstDraw(task) ==
    CASE task \in {"BUBBLE", "BUBBLESORT"} -> {<<0, 0, 0>>}
      [] task \in {"PARTITION", "COMPSWAP_PARTITION"} -> PartitionDraws
      [] task = "QUICKSORT" -> {<<0, length - 1, 0>>}
      [] task = "RESET" -> NotAllLeftDraws
      [] task = "LSHIFT" -> Positions(length) \X Positions(length) \X Third
      [] task = "RSHIFT" -> NotAllRightDraws
      [] task = "COMPSWAP" -> CompswapDraws
      [] OTHER -> {}

\* the (p1, p2, p3) a branch of reset_env leaves its loop or its draws with
PointerDraws(task) ==
    CASE task \in {"BUBBLE", "BUBBLESORT"} -> {<<0, 0, 0>>}
      [] task \in {"PARTITION", "COMPSWAP_PARTITION"} -> PartitionDraws
      [] task = "QUICKSORT" -> {<<0, length - 1, 0>>}
      [] task \in {"RESET", "LSHIFT"} -> NotAllLeftDraws
      [] task = "RSHIFT" -> NotAllRightDraws
      [] task = "COMPSWAP" -> CompswapDraws
      [] OTHER -> {}

\* how a reset_env call for the task ends
ResetOutcome(task) ==
    IF Quick /\ length % 2 = 1 /\ randint(0, length - 1) = {} THEN "ValueError"
    ELSE IF task \notin SamplingRules THEN "NotImplementedError"
    ELSE IF task = "COMPSWAP" /\ randint(0, length - 1) = {} THEN "ValueError"
    ELSE IF PointerDraws(task) = {} THEN "hang"
    ELSE "none"

\* the assignments reset_env makes before it looks at the task
ResetDraws ==
    /\ scratchpad_ints' \in Scratchpads(length)
    /\ IF Quick /\ StackDraws # {}
       THEN prog_stack' \in StackDraws /\ shared' = FALSE
       ELSE UNCHANGED <<prog_stack, shared>>
    /\ trace' = NoTrace
    /\ UNCHANGED <<cfgvars, init_state, post>>

\* reset_env with the task as the current task, returning normally
reset_env(task) ==
    /\ Running
    /\ task \in DOMAIN programs_library
    /\ ResetOutcome(task) = "none"
    /\ ResetDraws
    /\ \E t \in PointerDraws(task) :
          /\ p1_pos' = t[1]
          /\ p2_pos' = t[2]
          /\ p3_pos' = t[3]
    /\ has_been_reset' = TRUE
    /\ Returned("reset_env", task, "none")

\* reset_env raising, or looping for ever
reset_env_fails(task) ==
    /\ Running
    /\ task \in DOMAIN programs_library
    /\ ResetOutcome(task) # "none"
    /\ ResetDraws
    /\ UNCHANGED <<p1_pos, p2_pos, p3_pos, has_been_reset>>
    /\ Returned("reset_env", task, ResetOutcome(task))

\* ------------------------------------------- get_state and reset_to_state
\* s = get_state(): the caller keeps the tuple
GetState ==
    /\ Running
    /\ IF has_been_reset
       THEN /\ init_state' = get_state
            /\ shared' = FALSE
            /\ Returned("get_state", NoTask, "none")
       ELSE /\ UNCHANGED <<init_state, shared>>
            /\ Returned("get_state", NoTask, "AssertionError")
    /\ trace' = NoTrace
    /\ UNCHANGED <<cfgvars, envvars, post>>

\* the snapshot a caller takes as a task starts, before it runs the program
TakeSnapshot == last_call = "reset_env" /\ GetState

\* reset_to_state(s) with the tuple the caller holds: the scratchpad is copied,
\* the stack is the tuple's own list from then on
ResetToState ==
    /\ Running
    /\ init_state # NoState
    /\ scratchpad_ints' = init_state.scratchpad_ints
    /\ p1_pos' = init_state.p1_pos
    /\ p2_pos' = init_state.p2_pos
    /\ IF Quick
       THEN /\ p3_pos' = init_state.p3_pos
            /\ prog_stack' = init_state.prog_stack
            /\ shared' = TRUE
       ELSE UNCHANGED <<p3_pos, prog_stack, shared>>
    /\ Returned("reset_to_state", NoTask, "none")
    /\ trace' = NoTrace
    /\ UNCHANGED <<cfgvars, has_been_reset, init_state, post>>

\* reset_to_state(get_state()): the tuple is a temporary, its stack a fresh copy
RestoreOwnState ==
    /\ Running
    /\ IF has_been_reset
       THEN /\ scratchpad_ints' = get_state.scratchpad_ints
            /\ p1_pos' = get_state.p1_pos
            /\ p2_pos' = get_state.p2_pos
            /\ IF Quick
               THEN /\ p3_pos' = get_state.p3_pos
                    /\ prog_stack' = get_state.prog_stack
                    /\ shared' = FALSE
               ELSE UNCHANGED <<p3_pos, prog_stack, shared>>
            /\ Returned("reset_to_state", NoTask, "none")
       ELSE /\ UNCHANGED <<scratchpad_ints, p1_pos, p2_pos, p3_pos, prog_stack, shared>>
            /\ Returned("get_state", NoTask, "AssertionError")
    /\ trace' = NoTrace
    /\ UNCHANGED <<cfgvars, has_been_reset, init_state, post>>

\* ------------------------------------------------------- get_observation
\* OneHot counting the rows of np.eye(10) from 1
OneHotFromOne(digit) == [k \in 1..Basis |-> IF k = digit THEN 1 ELSE 0]

\* row digit of np.eye(10)
OneHot(digit) == [k \in 1..Basis |-> IF k = digit + 1 THEN 1 ELSE 0]

\* int(b)
IntOf(b) == IF b THEN 1 ELSE 0

\* np.all(arr[:-1] <= arr[1:])
_is_sorted ==
    AllLessEq(SubSeq(scratchpad_ints, 1, length - 1), SubSeq(scratchpad_ints, 2, length))

\* the vector get_observation() returns
get_observation ==
    LET p1_val == scratchpad_ints[p1_pos + 1]
        p2_val == scratchpad_ints[p2_pos + 1]
        p3_val == scratchpad_ints[p3_pos + 1]
        is_sorted == IntOf(_is_sorted)
        is_stack_empty == IntOf(Len(prog_stack) >= 3)
        pointers_same_pos == IntOf(p1_pos = p2_pos)
        pointers_same_pos_2 == IntOf(p2_pos = p3_pos)
        pt_1_left == IntOf(p1_pos = 0)
        pt_2_left == IntOf(p2_pos = 0)
        pt_3_left == IntOf(p3_pos = 0)
        pt_1_right == IntOf(p1_pos = length - 1)
        pt_2_right == IntOf(p2_pos = length - 1)
        pt_3_right == IntOf(p3_pos = length - 1)
    IN  IF Quick
        THEN OneHot(p1_val) \o OneHot(p2_val) \o OneHot(p3_val) \o
             <<pt_1_left, pt_1_right, pt_2_left, pt_2_right, pt_3_left, pt_3_right,
               pointers_same_pos, pointers_same_pos_2, is_sorted, is_stack_empty>>
        ELSE OneHot(p1_val) \o OneHot(p2_val) \o
             <<pt_1_left, pt_1_right, pt_2_left, pt_2_right, pointers_same_pos, is_sorted>>

\* get_observation_dim()
get_observation_dim == IF Quick THEN 3 * 10 + 10 ELSE 2 * 10 + 6

\* get_observation() without its assertion
GetObservationUnchecked ==
    /\ Running
    /\ Returned("get_observation", NoTask, "none")
    /\ post' = NoPost
    /\ UNCHANGED <<cfgvars, envvars, init_state, shared, trace>>

\* obs = get_observation()
GetObservation ==
    /\ Running
    /\ Returned("get_observation", NoTask,
                IF has_been_reset THEN "none" ELSE "AssertionError")
    /\ post' = NoPost
    /\ UNCHANGED <<cfgvars, envvars, init_state, shared, trace>>

\* get_state() by a caller that reads the tuple and does not keep it
LookAtState ==
    /\ Running
    /\ Returned("get_state", NoTask, IF has_been_reset THEN "none" ELSE "AssertionError")
    /\ post' = NoPost
    /\ UNCHANGED <<cfgvars, envvars, init_state, shared, trace>>

\* tuples a caller builds itself: any scratchpad, the pointers at the right end,
\* an empty stack
SuppliedStates ==
    {IF Quick
     THEN [scratchpad_ints |-> sp, p1_pos |-> length - 1, p2_pos |-> length - 1,
           p3_pos |-> length - 1, prog_stack |-> <<>>]
     ELSE [scratchpad_ints |-> sp, p1_pos |-> length - 1, p2_pos |-> length - 1] :
     sp \in [1..length -> 0..SortMaxDigit]}

\* reset_to_state(state) with a tuple of the caller's own making
reset_to_state(state) ==
    /\ Running
    /\ scratchpad_ints' = state.scratchpad_ints
    /\ p1_pos' = state.p1_pos
    /\ p2_pos' = state.p2_pos
    /\ IF Quick
       THEN /\ p3_pos' = state.p3_pos
            /\ prog_stack' = state.prog_stack
            /\ shared' = FALSE
       ELSE UNCHANGED <<p3_pos, prog_stack, shared>>
    /\ Returned("reset_to_state", NoTask, "none")
    /\ post' = NoPost
    /\ trace' = NoTrace
    /\ UNCHANGED <<cfgvars, has_been_reset, init_state>>

ResetToSupplied == \E state \in SuppliedStates : reset_to_state(state)

\* ------------------------------------------------------------ life cycle
\* __init__, for a length of 1..L
Constructed(L) ==
    /\ variant \in Variants
    /\ hierarchy \in BOOLEAN
    /\ length \in 1..L
    /\ scratchpad_ints = [i \in 1..length |-> 0]
    /\ p1_pos = 0
    /\ p2_pos = 0
    /\ p3_pos = 0
    /\ prog_stack = <<>>
    /\ has_been_reset = FALSE
    /\ last_call = "__init__"
    /\ last_arg = NoTask
    /\ raised = "none"
    /\ init_state = NoState
    /\ shared = FALSE
    /\ post = NoPost
    /\ trace = NoTrace

Init == Constructed(MaxLen)

ResetEnv == \E task \in DOMAIN programs_library : reset_env(task)
ResetEnvFails == \E task \in DOMAIN programs_library : reset_env_fails(task)

Next ==
    \/ ResetEnv
    \/ ResetEnvFails
    \/ STOP
    \/ PTR_1_LEFT
    \/ PTR_2_LEFT
    \/ PTR_3_LEFT
    \/ PTR_1_RIGHT
    \/ PTR_2_RIGHT
    \/ PTR_3_RIGHT
    \/ SWAP
    \/ SWAP_2
    \/ SWAP_3
    \/ PUSH
    \/ POP
    \/ RestoreOwnState

Spec == Init /\ [][Next]_vars

\* ---------------------------------- the life cycle of the top-level program
\* the program at the top of the registry
TopLevel == IF Quick /\ hierarchy THEN "QUICKSORT" ELSE "BUBBLESORT"

ResetTopLevel == reset_env(TopLevel)

InitStack == Constructed(MaxStackLen)

NextStack ==
    \/ ResetTopLevel
    \/ STOP
    \/ PTR_1_LEFT
    \/ PTR_2_LEFT
    \/ PTR_3_LEFT
    \/ PTR_1_RIGHT
    \/ PTR_2_RIGHT
    \/ PTR_3_RIGHT
    \/ SWAP
    \/ SWAP_2
    \/ SWAP_3
    \/ PUSH
    \/ POP

SpecStack == InitStack /\ [][NextStack]_vars

\* ------------------------------------------------ claims on the life cycle
InBounds(p) == p \in 0..(length - 1)

\* C1: once reset_env has succeeded, after any primitive actions, resets and
\* restored states, every pointer register lies in 0..length-1, also when POP
\* has loaded the registers from the stack.
C1_PointersInBounds ==
    has_been_reset => InBounds(p1_pos) /\ InBounds(p2_pos) /\ InBounds(p3_pos)

\* At an odd length reset_env leaves three elements on the stack, so an empty
\* stack after a reset means POP has loaded the registers; here they differ.
C1_Witness ==
    /\ Quick /\ has_been_reset /\ length = 3
    /\ prog_stack = <<>>
    /\ p1_pos = 1 /\ p2_pos = 0 /\ p3_pos = 1
    /\ last_call = "act"

\* C2: in the quicksort variant the stack always holds a whole number of
\* three-element frames.
C2_StackMultipleOfThree == Quick => Len(prog_stack) % 3 = 0

\* POP took the frame reset_env made, then one PUSH at p1 = 0, p3 = 2, p2 = 4
\* appended the right frame and the left frame, six elements
C2_Witness ==
    /\ Quick /\ has_been_reset /\ last_call = "act"
    /\ length = 5
    /\ prog_stack = <<3, 4, 3, 0, 1, 0>>
    /\ p1_pos = 0 /\ p2_pos = 4 /\ p3_pos = 2

AppendedFrames ==
    {SubSeq(prog_stack', k, k + 2) :
        k \in {j \in (Len(prog_stack) + 1)..Len(prog_stack') : (j - Len(prog_stack)) % 3 = 1}}

\* C10: a PUSH made with p1 <= p3 <= p2 appends only frames (lo, hi, lo) of a
\* non-empty sub-range of [p1, p2]: p1 <= lo <= hi <= p2.
C10_PushedRangesNonEmpty ==
    [][(PUSH /\ p1_pos <= p3_pos /\ p3_pos <= p2_pos) =>
          \A f \in AppendedFrames :
              /\ p1_pos <= f[1] /\ f[1] <= f[2] /\ f[2] <= p2_pos
              /\ f[3] = f[1]]_vars

\* C11: POP on a stack of at least three elements removes exactly the last
\* three, loads them into the registers (last element first) and leaves the rest
\* of the stack and the scratchpad alone; on a shorter stack it changes nothing
\* and raises nothing.  A triple (lo, hi, index) that PUSH has just appended is
\* what POP would load into (p1, p2, p3), so POPs return triples in the reverse
\* order of their pushes.
C11_PopLoadsTopFrame ==
    [][/\ POP =>
            IF Len(prog_stack) >= 3
            THEN LET n == Len(prog_stack) IN
                 /\ prog_stack' = SubSeq(prog_stack, 1, n - 3)
                 /\ p1_pos' = prog_stack[n]
                 /\ p2_pos' = prog_stack[n - 1]
                 /\ p3_pos' = prog_stack[n - 2]
                 /\ scratchpad_ints' = scratchpad_ints
                 /\ raised' = "none"
            ELSE UNCHANGED envvars /\ raised' = "none"
       /\ (PUSH /\ Len(prog_stack') > Len(prog_stack)) =>
            <<_pop_p1', _pop_p2', _pop_p3'>> =
                SubSeq(prog_stack', Len(prog_stack') - 2, Len(prog_stack'))]_vars

\* of the two triples one PUSH appended at length 5, POP has taken the later one
C11_Witness ==
    /\ Quick /\ has_been_reset /\ last_call = "act"
    /\ length = 5
    /\ prog_stack = <<3, 4, 3>>
    /\ p1_pos = 0 /\ p2_pos = 1 /\ p3_pos = 0

\* ------------------------------------------------- the life cycle, with reads
InitRead == Constructed(MaxLen)

NextRead ==
    \/ ResetTopLevel
    \/ ResetEnvFails
    \/ STOP
    \/ PTR_1_LEFT
    \/ PTR_2_LEFT
    \/ PTR_3_LEFT
    \/ PTR_1_RIGHT
    \/ PTR_2_RIGHT
    \/ PTR_3_RIGHT
    \/ SWAP
    \/ SWAP_2
    \/ SWAP_3
    \/ PUSH
    \/ POP
    \/ LookAtState
    \/ GetObservation
    \/ ResetToSupplied
    \/ RestoreOwnState

SpecRead == InitRead /\ [][NextRead]_vars

\* ------------------------------------------------ a task, start to verdict
\* The controller starts a task: reset_env() for it, then the snapshot
\* init_state = get_state() that it will hand to the postcondition
start_task(task) ==
    /\ Running
    /\ task \in DOMAIN programs_library
    /\ ResetOutcome(task) = "none"
    /\ scratchpad_ints' \in [1..length -> 0..SortMaxDigit]
    /\ prog_stack' \in (IF Quick THEN StackDraws ELSE {<<>>})
    /\ \E t \in PointerDraws(task) :
          /\ p1_pos' = t[1]
          /\ p2_pos' = t[2]
          /\ p3_pos' = t[3]
    /\ has_been_reset' = TRUE
    /\ init_state' =
          IF Quick
          THEN [scratchpad_ints |-> scratchpad_ints', p1_pos |-> p1_pos',
                p2_pos |-> p2_pos', p3_pos |-> p3_pos', prog_stack |-> prog_stack']
          ELSE [scratchpad_ints |-> scratchpad_ints', p1_pos |-> p1_pos',
                p2_pos |-> p2_pos']
    /\ shared' = FALSE
    /\ Returned("start_task", task, "none")
    /\ post' = NoPost
    /\ trace' = NoTrace
    /\ UNCHANGED cfgvars

StartTopLevel == start_task(TopLevel)

\* the controller asks for the verdict on the top-level program
CheckTopLevel == check_postcondition(TopLevel)

InitSort == Constructed(MaxLen)

NextSort ==
    \/ StartTopLevel
    \/ STOP
    \/ PTR_1_LEFT
    \/ PTR_2_LEFT
    \/ PTR_3_LEFT
    \/ PTR_1_RIGHT
    \/ PTR_2_RIGHT
    \/ PTR_3_RIGHT
    \/ SWAP
    \/ SWAP_2
    \/ SWAP_3
    \/ PUSH
    \/ POP
    \/ CheckTopLevel

SpecSort == InitSort /\ [][NextSort]_vars

\* ------------------------------------------- the life cycle, with a snapshot
NextSnap ==
    \/ ResetTopLevel
    \/ TakeSnapshot
    \/ ResetToState
    \/ STOP
    \/ PTR_1_LEFT
    \/ PTR_2_LEFT
    \/ PTR_3_LEFT
    \/ PTR_1_RIGHT
    \/ PTR_2_RIGHT
    \/ PTR_3_RIGHT
    \/ SWAP
    \/ SWAP_2
    \/ SWAP_3
    \/ PUSH
    \/ POP

SpecSnap == Init /\ [][NextSnap]_vars

\* C9: a tuple get_state returned is never changed by a later operation on the
\* environment.
C9_ReturnedStateImmutable ==
    [][(init_state # NoState /\ last_call' # "get_state") => init_state' = init_state]_vars

\* --------------------------------------------- postconditions, on any pair
\* A stack the environment can hold at this length (PUSH at p3 = 0, p2 = 2 makes
\* the frame), besides the empty one
PostStacks == IF length >= 3 THEN {<<>>, <<1, 2, 1>>} ELSE {<<>>}

\* An environment that has been reset and acted on, and a tuple the caller holds
\* from an earlier get_state(), both with any contents
InitPost ==
    /\ variant \in Variants
    /\ hierarchy \in BOOLEAN
    /\ length \in 1..MaxLen
    /\ \E task \in DOMAIN programs_library : ResetOutcome(task) = "none"
    /\ scratchpad_ints \in [1..length -> 0..PostMaxDigit]
    /\ p1_pos \in Positions(length)
    /\ p2_pos \in Positions(length)
    /\ p3_pos \in Third
    /\ prog_stack \in (IF Quick THEN PostStacks ELSE {<<>>})
    /\ has_been_reset = TRUE
    /\ last_call = "act"
    /\ last_arg = NoTask
    /\ raised = "none"
    /\ \E sp \in [1..length -> 0..PostMaxDigit], a \in Positions(length),
          b \in Positions(length), c \in Third, st \in PostStacks :
          init_state = IF Quick
                       THEN [scratchpad_ints |-> sp, p1_pos |-> a, p2_pos |-> b,
                             p3_pos |-> c, prog_stack |-> st]
                       ELSE [scratchpad_ints |-> sp, p1_pos |-> a, p2_pos |-> b]
    /\ shared = FALSE
    /\ post = NoPost
    /\ trace = NoTrace

CheckPostcondition == \E prog \in prog_to_postcondition : check_postcondition(prog)

NextPost == CheckPostcondition

SpecPost == InitPost /\ [][NextPost]_vars

\* ------------------------------------------- claims on the postconditions
\* the value check_postcondition returned for the program, when it was the last call
Returns(prog) == last_call = "check_postcondition" /\ raised = "none" /\ post.prog = prog

NonDecreasing(arr) == \A i \in 1..Len(arr) : \A j \in i..Len(arr) : arr[i] <= arr[j]

SameElements(a, b) == Len(a) = Len(b) /\ \A i \in 1..Len(a) : a[i] = b[i]

\* C4: the top-level postcondition is true exactly when the resulting
\* scratchpad is non-decreasing, whatever the snapshot, the pointers and the
\* stack are.
C4_TopLevelPostIffSorted ==
    \A prog \in {"BUBBLESORT", "QUICKSORT"} :
        Returns(prog) => (post.value <=> NonDecreasing(scratchpad_ints))

\* accepted with an unsorted snapshot, pointers off their start and a stack
C4_Witness ==
    /\ Returns("QUICKSORT") /\ post.value
    /\ length = 3
    /\ init_state.scratchpad_ints = <<1, 0, 1>>
    /\ scratchpad_ints = <<0, 1, 1>>
    /\ p1_pos = 2 /\ p3_pos = 1
    /\ prog_stack # <<>>

\* the pointer one step right of p, or p at the right end
ClampRight(p) == IF p + 1 <= length - 1 THEN p + 1 ELSE length - 1
\* the pointer one step left of p, or p at the left end
ClampLeft(p) == IF p - 1 >= 0 THEN p - 1 ELSE 0

\* C5: RSHIFT (LSHIFT) is accepted exactly when scratchpad and stack are those
\* of the snapshot and every tracked pointer is the snapshot's, one step to the
\* right (left), clamped at the boundary.
C5_ShiftPostcondition ==
    /\ Returns("RSHIFT") =>
         (post.value <=>
            /\ SameElements(scratchpad_ints, init_state.scratchpad_ints)
            /\ Quick => SameElements(prog_stack, init_state.prog_stack)
            /\ p1_pos = ClampRight(init_state.p1_pos)
            /\ p2_pos = ClampRight(init_state.p2_pos)
            /\ Quick => p3_pos = ClampRight(init_state.p3_pos))
    /\ Returns("LSHIFT") =>
         (post.value <=>
            /\ SameElements(scratchpad_ints, init_state.scratchpad_ints)
            /\ Quick => SameElements(prog_stack, init_state.prog_stack)
            /\ p1_pos = ClampLeft(init_state.p1_pos)
            /\ p2_pos = ClampLeft(init_state.p2_pos)
            /\ Quick => p3_pos = ClampLeft(init_state.p3_pos))

\* C6: RESET is accepted exactly when scratchpad and stack are those of the
\* snapshot and every pointer is 0.
C6_ResetPostcondition ==
    Returns("RESET") =>
        (post.value <=>
            /\ SameElements(scratchpad_ints, init_state.scratchpad_ints)
            /\ Quick => SameElements(prog_stack, init_state.prog_stack)
            /\ p1_pos = 0 /\ p2_pos = 0
            /\ Quick => p3_pos = 0)

\* RESET accepted: pointers of the snapshot anywhere, those of the state at 0,
\* scratchpad and stack the snapshot's
C6_Witness ==
    /\ Quick /\ Returns("RESET") /\ post.value
    /\ length = 3
    /\ scratchpad_ints = <<1, 0, 1>>
    /\ prog_stack = <<1, 2, 1>>
    /\ init_state.p1_pos = 2 /\ init_state.p2_pos = 1 /\ init_state.p3_pos = 2

\* one comparison-swap step on a snapshot: p2 moves off p1 when it can, then
\* the elements at the smaller and the larger of p1, p2 are put in order
CompSwapStep(init) ==
    LET p2 == IF init.p1_pos = init.p2_pos /\ init.p2_pos < length - 1
              THEN init.p2_pos + 1 ELSE init.p2_pos
        lo == Min(init.p1_pos, p2)
        hi == Max(init.p1_pos, p2)
        arr == init.scratchpad_ints
    IN  [init EXCEPT !.p2_pos = p2,
                     !.scratchpad_ints = IF arr[lo + 1] > arr[hi + 1]
                                         THEN SwapElems(arr, lo, hi) ELSE arr]

\* C7: COMPSWAP_PARTITION is accepted exactly when the state is the snapshot
\* after one comparison-swap step, p3 and the stack as they were.
C7_CompswapPartitionIsOneStep ==
    Returns("COMPSWAP_PARTITION") => (post.value <=> get_state = CompSwapStep(init_state))

\* one Lomuto partition pass over [p1, p2] of a snapshot, p3 the scan index
LomutoPass(init) ==
    LET r == _partition(init.scratchpad_ints, init.p1_pos, init.p2_pos, init.p3_pos)
    IN  [init EXCEPT !.scratchpad_ints = r[1], !.p1_pos = r[2], !.p2_pos = r[3],
                     !.p3_pos = r[4]]

\* C8: on a snapshot with p1 <= p2 and p3 = p1, the PARTITION postcondition
\* returns a boolean, true exactly when the state is the snapshot after one
\* Lomuto partition pass.
C8_PartitionPostcondition ==
    (/\ last_call = "check_postcondition" /\ last_arg = "PARTITION"
     /\ init_state.p1_pos <= init_state.p2_pos
     /\ init_state.p3_pos = init_state.p1_pos)
        => /\ raised = "none"
           /\ post.prog = "PARTITION"
           /\ post.value <=> get_state = LomutoPass(init_state)

\* ------------------------------------------------- claims on the primitives
\* a step in which a primitive was executed
PrimitiveStep == last_call' = "act"

\* C12: each primitive changes only its own part of the state: a pointer move
\* at most its pointer, a swap at most the scratchpad, PUSH at most the stack
\* and only by appending, POP not the scratchpad, STOP nothing.
C12_PrimitiveFrames ==
    [][PrimitiveStep =>
         /\ (PTR_1_LEFT \/ PTR_1_RIGHT) =>
              UNCHANGED <<scratchpad_ints, p2_pos, p3_pos, prog_stack>>
         /\ (PTR_2_LEFT \/ PTR_2_RIGHT) =>
              UNCHANGED <<scratchpad_ints, p1_pos, p3_pos, prog_stack>>
         /\ (PTR_3_LEFT \/ PTR_3_RIGHT) =>
              UNCHANGED <<scratchpad_ints, p1_pos, p2_pos, prog_stack>>
         /\ (SWAP \/ SWAP_2 \/ SWAP_3) =>
              UNCHANGED <<p1_pos, p2_pos, p3_pos, prog_stack>>
         /\ PUSH =>
              /\ UNCHANGED <<scratchpad_ints, p1_pos, p2_pos, p3_pos>>
              /\ Len(prog_stack') >= Len(prog_stack)
              /\ SubSeq(prog_stack', 1, Len(prog_stack)) = prog_stack
         /\ POP => UNCHANGED scratchpad_ints
         /\ STOP => UNCHANGED envvars]_vars

\* a swap has changed the scratchpad; pointers and stack are the snapshot's
C12_Witness ==
    /\ Quick /\ last_call = "act" /\ length = 3
    /\ init_state # NoState
    /\ init_state.scratchpad_ints = <<1, 0, 0>>
    /\ scratchpad_ints = <<0, 0, 1>>
    /\ p1_pos = init_state.p1_pos /\ p2_pos = init_state.p2_pos
    /\ p3_pos = init_state.p3_pos /\ prog_stack = init_state.prog_stack

\* the step the primitive of that name makes
ActionOf(prog) ==
    CASE prog = "STOP" -> STOP
      [] prog = "PTR_1_LEFT" -> PTR_1_LEFT
      [] prog = "PTR_2_LEFT" -> PTR_2_LEFT
      [] prog = "PTR_3_LEFT" -> PTR_3_LEFT
      [] prog = "PTR_1_RIGHT" -> PTR_1_RIGHT
      [] prog = "PTR_2_RIGHT" -> PTR_2_RIGHT
      [] prog = "PTR_3_RIGHT" -> PTR_3_RIGHT
      [] prog = "SWAP" -> SWAP
      [] prog = "SWAP_2" -> SWAP_2
      [] prog = "SWAP_3" -> SWAP_3
      [] prog = "PUSH" -> PUSH
      [] prog = "POP" -> POP

\* C13: a primitive executed where its precondition is false leaves the whole
\* state as it is and raises nothing; a pointer move executed where its
\* precondition is true moves its pointer by exactly one step.
C13_NoOpWithoutPrecondition ==
    [][PrimitiveStep =>
         /\ \A prog \in prog_to_func :
              (ActionOf(prog) /\ ~check_precondition(prog)) =>
                  UNCHANGED envvars /\ raised' = "none"
         /\ (PTR_1_LEFT /\ check_precondition("PTR_1_LEFT")) => p1_pos' = p1_pos - 1
         /\ (PTR_2_LEFT /\ check_precondition("PTR_2_LEFT")) => p2_pos' = p2_pos - 1
         /\ (PTR_3_LEFT /\ check_precondition("PTR_3_LEFT")) => p3_pos' = p3_pos - 1
         /\ (PTR_1_RIGHT /\ check_precondition("PTR_1_RIGHT")) => p1_pos' = p1_pos + 1
         /\ (PTR_2_RIGHT /\ check_precondition("PTR_2_RIGHT")) => p2_pos' = p2_pos + 1
         /\ (PTR_3_RIGHT /\ check_precondition("PTR_3_RIGHT")) => p3_pos' = p3_pos + 1]_vars

\* p1 and p2 together at the right end, after moves, an empty stack: PTR_1_RIGHT,
\* PTR_2_RIGHT, SWAP and POP have their preconditions false and are no-ops here
C13_Witness ==
    /\ Quick /\ hierarchy /\ last_call = "act" /\ length = 3
    /\ p1_pos = 2 /\ p2_pos = 2 /\ p3_pos = 1
    /\ prog_stack = <<>>
    /\ scratchpad_ints = <<0, 1, 1>>

\* the number of elements of arr that are v
Count(arr, v) == Cardinality({i \in 1..Len(arr) : arr[i] = v})

\* a is a rearrangement of b
Permutation(a, b) ==
    /\ Len(a) = Len(b)
    /\ \A i \in 1..Len(a) : Count(a, a[i]) = Count(b, a[i])

\* C17: the primitives keep the multiset of the scratchpad's values, so when the
\* top-level postcondition accepts a state reached from the reset state by
\* primitives, the scratchpad is the reset scratchpad sorted.
C17_AcceptedIsSortedPermutation ==
    /\ init_state # NoState => Permutation(scratchpad_ints, init_state.scratchpad_ints)
    /\ (Returns(TopLevel) /\ post.value) =>
          /\ NonDecreasing(scratchpad_ints)
          /\ Permutation(scratchpad_ints, init_state.scratchpad_ints)

\* an unsorted reset scratchpad, sorted by the trace and accepted
C17_Witness ==
    /\ Quick /\ Returns("QUICKSORT") /\ post.value
    /\ init_state.scratchpad_ints = <<1, 1, 0>>
    /\ scratchpad_ints = <<0, 1, 1>>

\* the step exchanged the elements at i and j and nothing else, and the same
\* swap made again gives the scratchpad back
Exchanged(i, j) ==
    /\ scratchpad_ints'[i + 1] = scratchpad_ints[j + 1]
    /\ scratchpad_ints'[j + 1] = scratchpad_ints[i + 1]
    /\ \A k \in 1..length : k \notin {i + 1, j + 1} => scratchpad_ints'[k] = scratchpad_ints[k]
    /\ SwapElems(scratchpad_ints', i, j) = scratchpad_ints

\* C20: SWAP exchanges the elements at p1 and p2, SWAP_2 those at p2 and p3,
\* SWAP_3 those at p3 and p1, every other element stays, and the same swap
\* executed twice in a row restores the scratchpad.
C20_SwapExchangesTwo ==
    [][PrimitiveStep =>
         /\ SWAP => Exchanged(p1_pos, p2_pos)
         /\ SWAP_2 => Exchanged(p2_pos, p3_pos)
         /\ SWAP_3 => Exchanged(p3_pos, p1_pos)]_vars

\* SWAP_3 at p3 = 2, p1 = 0 has exchanged the ends of the reset scratchpad
C20_Witness ==
    /\ Quick /\ last_call = "act" /\ length = 3
    /\ init_state # NoState
    /\ init_state.scratchpad_ints = <<0, 1, 1>>
    /\ scratchpad_ints = <<1, 1, 0>>
    /\ p1_pos = 0 /\ p2_pos = 1 /\ p3_pos = 2

\* ------------------------------------------------------ claims on the reads
\* C14: get_state and get_observation fail exactly when no reset_env call has
\* yet returned normally on the instance.  has_been_reset is false at
\* construction, only a reset_env that returns normally changes it, to true, and
\* a read raises exactly when it is false; so neither reset_to_state nor a failed
\* reset_env lets a read succeed, and nothing makes a read fail again.
C14_ReadsFailBeforeReset ==
    [][/\ last_call' \in {"get_state", "get_observation"} =>
            /\ raised' \in {"none", "AssertionError"}
            /\ raised' = "AssertionError" <=> ~has_been_reset
       /\ has_been_reset' # has_been_reset =>
            has_been_reset' /\ last_call' = "reset_env" /\ raised' = "none"
       /\ (last_call' = "reset_env" /\ raised' = "none") => has_been_reset']_vars

\* never reset, yet with a stack a failed reset_env drew: get_state has failed
C14_Witness ==
    /\ Quick /\ ~has_been_reset
    /\ prog_stack = <<1, 0, 1>>
    /\ last_call = "get_state" /\ raised = "AssertionError"

\* reset, then a failed reset_env, a reset_to_state and moves: the read succeeds
C14_WitnessAfter ==
    /\ Quick /\ has_been_reset
    /\ last_call = "get_observation" /\ raised = "none"
    /\ scratchpad_ints = <<1, 0, 1>>

\* C15: reset_to_state(get_state()) leaves the environment as it is: get_state()
\* and get_observation() give the same values after it as before it (before any
\* reset get_state() raises and nothing is assigned).
C15_RestoreOwnStateIsIdentity ==
    [][RestoreOwnState =>
         /\ UNCHANGED envvars
         /\ get_state' = get_state
         /\ get_observation' = get_observation
         /\ has_been_reset => raised' = "none"]_vars

\* restored in place with a pushed frame on the stack and spread pointers
C15_Witness ==
    /\ Quick /\ has_been_reset /\ length = 3
    /\ last_call = "reset_to_state"
    /\ prog_stack = <<1, 2, 1>>
    /\ p1_pos = 1 /\ p2_pos = 2 /\ p3_pos = 0
    /\ scratchpad_ints = <<1, 0, 1>>

\* ------------------------------------------------------ claims on reset_env
\* C16: in a hierarchical registry reset_env raises NotImplementedError exactly
\* when the current task has no sampling rule: every program of level 1 or more
\* has one and its reset returns normally, every level-0 primitive and STOP is
\* rejected with that error.
C16_UnsupportedTaskExactly ==
    (last_call = "reset_env" /\ hierarchy) =>
        /\ raised = "NotImplementedError" <=> last_arg \notin SamplingRules
        /\ programs_library[last_arg] >= 1 => raised = "none"
        /\ programs_library[last_arg] < 1 => raised = "NotImplementedError"

C18_StepsReachLomuto ==
    (/\ Returns("COMPSWAP_PARTITION") /\ post.value
     /\ init_state.p1_pos <= init_state.p2_pos
     /\ init_state.p3_pos = init_state.p1_pos
     /\ PostValue("COMPSWAP_PARTITION", get_state, get_state))
        => scratchpad_ints = LomutoPass(init_state).scratchpad_ints

\* ------------------------------------------ claims on check_postcondition
\* a step in which check_postcondition was called
PostconditionStep == last_call' = "check_postcondition"

\* C21: check_postcondition is a pure query: for every composite program and
\* every pair (snapshot, state) the call leaves the environment's state, the
\* snapshot and the state tuple get_state() gave as they were, also where the
\* reference computation exchanges elements.
C21_PostconditionIsPure ==
    [][PostconditionStep =>
         /\ UNCHANGED envvars
         /\ init_state' = init_state
         /\ get_state' = get_state
         /\ UNCHANGED <<cfgvars, shared>>]_vars

\* BUBBLE has accepted; its reference pass moved the 1 of the snapshot to the
\* right end, and the snapshot still has it in front
C21_Witness ==
    /\ ~Quick /\ Returns("BUBBLE") /\ post.value
    /\ length = 3
    /\ init_state.scratchpad_ints = <<1, 0, 0>>
    /\ scratchpad_ints = <<0, 0, 1>>

\* ------------------------------------------------- claims on compare_state
\* the two tuples have the same value in every field
AgreeOnEveryField(a, b) ==
    /\ Len(a.scratchpad_ints) = Len(b.scratchpad_ints)
    /\ \A i \in 1..Len(a.scratchpad_ints) : a.scratchpad_ints[i] = b.scratchpad_ints[i]
    /\ a.p1_pos - b.p1_pos = 0
    /\ a.p2_pos - b.p2_pos = 0
    /\ Quick => /\ a.p3_pos - b.p3_pos = 0
                /\ Len(a.prog_stack) = Len(b.prog_stack)
                /\ \A i \in 1..Len(a.prog_stack) : a.prog_stack[i] = b.prog_stack[i]

\* C22: on the states an environment reaches, of either variant, compare_state
\* is reflexive and symmetric, and it is true exactly when the two tuples agree
\* on the scratchpad element by element, on each pointer and, in the quicksort
\* variant, on the stack's elements in order.  The pair is the snapshot taken as
\* the task started and the state now.
C22_CompareStateIsEquality ==
    (has_been_reset /\ init_state # NoState) =>
        /\ compare_state(get_state, get_state)
        /\ compare_state(init_state, init_state)
        /\ compare_state(init_state, get_state) <=> compare_state(get_state, init_state)
        /\ compare_state(init_state, get_state) <=> AgreeOnEveryField(init_state, get_state)

\* after a PUSH the state differs from the snapshot in the stack and in nothing
\* else
C22_Witness ==
    /\ Quick /\ has_been_reset /\ init_state # NoState /\ length = 3
    /\ scratchpad_ints = init_state.scratchpad_ints
    /\ scratchpad_ints = <<1, 0, 1>>
    /\ p1_pos = init_state.p1_pos /\ p2_pos = init_state.p2_pos
    /\ p3_pos = init_state.p3_pos
    /\ Len(prog_stack) = 6 /\ Len(init_state.prog_stack) = 3
    /\ ~compare_state(init_state, get_state)

\* ------------------------------------------ observations of all ten digits
\* reset_env() for the top-level task, each element of the scratchpad one of the
\* ten digits
ResetAllDigits ==
    /\ Running
    /\ ResetOutcome(TopLevel) = "none"
    /\ scratchpad_ints' \in [1..length -> randint(0, NumDigits)]
    /\ IF Quick /\ StackDraws # {}
       THEN prog_stack' \in StackDraws /\ shared' = FALSE
       ELSE UNCHANGED <<prog_stack, shared>>
    /\ \E t \in PointerDraws(TopLevel) :
          /\ p1_pos' = t[1]
          /\ p2_pos' = t[2]
          /\ p3_pos' = t[3]
    /\ has_been_reset' = TRUE
    /\ Returned("reset_env", TopLevel, "none")
    /\ trace' = NoTrace
    /\ UNCHANGED <<cfgvars, init_state, post>>

InitObs == Constructed(ObsMaxLen)

NextObs ==
    \/ ResetAllDigits
    \/ PTR_1_LEFT
    \/ PTR_2_LEFT
    \/ PTR_3_LEFT
    \/ PTR_1_RIGHT
    \/ PTR_2_RIGHT
    \/ PTR_3_RIGHT
    \/ SWAP
    \/ GetObservation

SpecObs == InitObs /\ [][NextObs]_vars

\* entries 10*block+1 .. 10*block+10 of the vector are 0 except the one for the
\* value, which is 1
BlockEncodes(obs, block, value) ==
    /\ \A k \in 0..9 : obs[10 * block + k + 1] = (IF k = value THEN 1 ELSE 0)
    /\ Cardinality({k \in 0..9 : obs[10 * block + k + 1] = 1}) = 1

\* C23: in every state in which get_observation() returns, the vector has
\* get_observation_dim() entries, 26 with two pointers and 40 with three, every
\* entry is 0 or 1, and the 10-entry block of each pointer is the one-hot
\* encoding of the scratchpad's element under that pointer.
C23_ObservationShape ==
    has_been_reset =>
        /\ Len(get_observation) = get_observation_dim
        /\ get_observation_dim = (IF Quick THEN 40 ELSE 26)
        /\ \A k \in 1..Len(get_observation) : get_observation[k] \in {0, 1}
        /\ BlockEncodes(get_observation, 0, scratchpad_ints[p1_pos + 1])
        /\ BlockEncodes(get_observation, 1, scratchpad_ints[p2_pos + 1])
        /\ Quick => BlockEncodes(get_observation, 2, scratchpad_ints[p3_pos + 1])

\* get_observation() has returned with p1 and p3 on a 9 and p2 on a 0
C23_Witness ==
    /\ Quick /\ length = 2
    /\ last_call = "get_observation" /\ raised = "none"
    /\ scratchpad_ints = <<9, 0>>
    /\ p1_pos = 0 /\ p2_pos = 1 /\ p3_pos = 0

\* ------------------------------- claims on what the postconditions accept
\* the tuples get_state() can return with every pointer in 0..length-1, the
\* stack being the present one
StatesInBounds ==
    {IF Quick
     THEN [scratchpad_ints |-> sp, p1_pos |-> a, p2_pos |-> b, p3_pos |-> c,
           prog_stack |-> prog_stack]
     ELSE [scratchpad_ints |-> sp, p1_pos |-> a, p2_pos |-> b] :
     sp \in [1..length -> 0..SortMaxDigit], a \in Positions(length),
     b \in Positions(length), c \in Third}

\* C24: whenever the precondition of a composite program holds in a state with
\* its pointers in bounds, the postcondition of the program, given that state as
\* the snapshot, returns true for at least one resulting state with every
\* pointer in 0..length-1; also at p1 = p2 = p3 = 0.  Stated for the programs
\* whose postcondition returns a value, that is all but PARTITION.
C24_PostconditionSatisfiable ==
    (has_been_reset /\ InBounds(p1_pos) /\ InBounds(p2_pos) /\ InBounds(p3_pos)) =>
        \A prog \in prog_to_postcondition \ {"PARTITION"} :
            check_precondition(prog) =>
                /\ PostRaises(prog) = "none"
                /\ \E state \in StatesInBounds : PostValue(prog, get_state, state)

\* ------------------------------------- a composite program, step by step
\* The controller enters a program: init_state = get_state() is the snapshot its
\* postcondition will be given, and the record of what it executes starts
EnterProgram(prog) ==
    /\ Running
    /\ has_been_reset
    /\ prog \in DOMAIN programs_library
    /\ init_state' = get_state
    /\ shared' = FALSE
    /\ trace' = <<prog>>
    /\ post' = NoPost
    /\ Returned("get_state", NoTask, "none")
    /\ UNCHANGED <<cfgvars, envvars>>

\* the tuples get_state() can return in an environment of this length and stack
ResultingStates ==
    {IF Quick
     THEN [scratchpad_ints |-> sp, p1_pos |-> a, p2_pos |-> b, p3_pos |-> c,
           prog_stack |-> prog_stack]
     ELSE [scratchpad_ints |-> sp, p1_pos |-> a, p2_pos |-> b] :
     sp \in [1..length -> 0..SortMaxDigit], a \in Positions(length),
     b \in Positions(length), c \in Third}

\* A step of a program that is itself a program: it is run from the present
\* state, and the state it ends in is one its postcondition accepts for the
\* state it started in
RunAccepted(prog) ==
    /\ Running
    /\ has_been_reset
    /\ trace # NoTrace
    /\ prog \in prog_to_postcondition
    /\ PostRaises(prog) = "none"
    /\ \E state \in ResultingStates :
          /\ PostValue(prog, get_state, state)
          /\ scratchpad_ints' = state.scratchpad_ints
          /\ p1_pos' = state.p1_pos
          /\ p2_pos' = state.p2_pos
          /\ p3_pos' = IF Quick THEN state.p3_pos ELSE p3_pos
    /\ trace' = Append(trace, prog)
    /\ post' = NoPost
    /\ Returned("run", prog, "none")
    /\ UNCHANGED <<cfgvars, prog_stack, has_been_reset, init_state, shared>>

\* the steps of BUBBLE: COMPSWAP then RSHIFT, length-1 times over
BubbleBody == [k \in 1..(2 * (length - 1)) |-> IF k % 2 = 1 THEN "COMPSWAP" ELSE "RSHIFT"]

\* the steps of BUBBLESORT: BUBBLE then RESET, length-1 times over
BubbleSortBody == [k \in 1..(2 * (length - 1)) |-> IF k % 2 = 1 THEN "BUBBLE" ELSE "RESET"]

Body(prog) == IF prog = "BUBBLE" THEN BubbleBody ELSE BubbleSortBody

\* the steps made so far in the program entered
StepsDone == Len(trace) - 1

StartBubble == start_task("BUBBLE")
StartBubbleSort == start_task("BUBBLESORT")
EnterBubble == p1_pos = 0 /\ p2_pos = 0 /\ EnterProgram("BUBBLE")
EnterBubbleSort == check_precondition("BUBBLESORT") /\ EnterProgram("BUBBLESORT")

\* the next step of the program entered
RunNextStep ==
    /\ trace # NoTrace
    /\ StepsDone < Len(Body(trace[1]))
    /\ RunAccepted(Body(trace[1])[StepsDone + 1])

InitBody == Constructed(MaxBodyLen)

NextBody ==
    \/ StartBubble
    \/ StartBubbleSort
    \/ EnterBubble
    \/ EnterBubbleSort
    \/ RunNextStep

SpecBody == InitBody /\ [][NextBody]_vars

\* the record is that of the program, followed so far step by step
Following(prog) ==
    /\ trace # NoTrace
    /\ trace[1] = prog
    /\ StepsDone <= Len(Body(prog))
    /\ SubSeq(trace, 2, Len(trace)) = SubSeq(Body(prog), 1, StepsDone)

C26_BubbleSortBodySorts ==
    Following("BUBBLESORT") =>
        /\ (StepsDone < Len(BubbleSortBody) /\ BubbleSortBody[StepsDone + 1] = "BUBBLE") =>
               check_precondition("BUBBLE")
        /\ StepsDone = Len(BubbleSortBody) =>
               /\ PostValue("BUBBLESORT", init_state, get_state)
               /\ NonDecreasing(scratchpad_ints)

\* a scratchpad in reverse order, sorted after the third RESET
C26_Witness ==
    /\ Following("BUBBLESORT") /\ length = 4
    /\ StepsDone = 6
    /\ init_state.scratchpad_ints = <<1, 1, 0, 0>>
    /\ scratchpad_ints = <<0, 0, 1, 1>>
    /\ p1_pos = 0 /\ p2_pos = 0

\* ------------------------------------------ a shift, primitive by primitive
EnterRshift == EnterProgram("RSHIFT")
EnterLshift == EnterProgram("LSHIFT")

InitMoves == Constructed(MaxLen)

NextMoves ==
    \/ ResetTopLevel
    \/ EnterRshift
    \/ EnterLshift
    \/ PTR_1_LEFT
    \/ PTR_2_LEFT
    \/ PTR_3_LEFT
    \/ PTR_1_RIGHT
    \/ PTR_2_RIGHT
    \/ PTR_3_RIGHT

SpecMoves == InitMoves /\ [][NextMoves]_vars

\* the moves to the right (left), one for each pointer the variant tracks
RightMoves ==
    IF Quick THEN {"PTR_1_RIGHT", "PTR_2_RIGHT", "PTR_3_RIGHT"}
    ELSE {"PTR_1_RIGHT", "PTR_2_RIGHT"}
LeftMoves ==
    IF Quick THEN {"PTR_1_LEFT", "PTR_2_LEFT", "PTR_3_LEFT"}
    ELSE {"PTR_1_LEFT", "PTR_2_LEFT"}

\* the primitives executed since the program was entered
Executed == {trace[k] : k \in 2..Len(trace)}

\* since the program was entered each of the moves was executed exactly once,
\* and nothing else was
EachOnce(moves) == Executed = moves /\ Len(trace) - 1 = Cardinality(moves)

\* no primitive was executed twice and no pointer was moved both ways
OneWayEach ==
    /\ Len(trace) - 1 = Cardinality(Executed)
    /\ ~({"PTR_1_LEFT", "PTR_1_RIGHT"} \subseteq Executed)
    /\ ~({"PTR_2_LEFT", "PTR_2_RIGHT"} \subseteq Executed)
    /\ ~({"PTR_3_LEFT", "PTR_3_RIGHT"} \subseteq Executed)

\* where a pointer that was at p is, given which of its moves was executed
After(p, right, left) ==
    IF right \in Executed THEN ClampRight(p)
    ELSE IF left \in Executed THEN ClampLeft(p) ELSE p

C28_CompswapAcceptsOneState ==
    (/\ ~Quick /\ Returns("COMPSWAP")
     /\ init_state.p1_pos < length - 1
     /\ init_state.p2_pos \in {init_state.p1_pos, init_state.p1_pos + 1}) =>
        LET a == init_state.scratchpad_ints
            i == init_state.p1_pos + 1
        IN  /\ post.value <=>
                  /\ p1_pos = init_state.p1_pos
                  /\ p2_pos = init_state.p1_pos + 1
                  /\ scratchpad_ints[i] <= scratchpad_ints[i + 1]
                  /\ <<scratchpad_ints[i], scratchpad_ints[i + 1]>> \in
                         {<<a[i], a[i + 1]>>, <<a[i + 1], a[i]>>}
                  /\ \A k \in 1..length : k \notin {i, i + 1} => scratchpad_ints[k] = a[k]
            /\ post.value => check_precondition("COMPSWAP")

\* accepted: p2 has moved off p1 and the pair under the pointers was exchanged
C28_Witness ==
    /\ ~Quick /\ Returns("COMPSWAP") /\ post.value
    /\ length = 3
    /\ init_state.scratchpad_ints = <<0, 1, 0>>
    /\ init_state.p1_pos = 1 /\ init_state.p2_pos = 1
    /\ scratchpad_ints = <<0, 0, 1>>
    /\ p1_pos = 1 /\ p2_pos = 2

\* ------------------------------------------------- the partition routine
\* A quicksort environment that has been reset and acted on: any scratchpad, any
\* pointers, the stack popped empty
InitPartition ==
    /\ variant = "QuickSortListEnv"
    /\ hierarchy = TRUE
    /\ length \in 2..MaxPartLen
    /\ scratchpad_ints \in [1..length -> 0..PartMaxDigit]
    /\ p1_pos \in Positions(length)
    /\ p2_pos \in Positions(length)
    /\ p3_pos \in Positions(length)
    /\ prog_stack = <<>>
    /\ has_been_reset = TRUE
    /\ last_call = "act"
    /\ last_arg = NoTask
    /\ raised = "none"
    /\ init_state = NoState
    /\ shared = FALSE
    /\ post = NoPost
    /\ trace = NoTrace

EnterPartition == check_precondition("PARTITION") /\ EnterProgram("PARTITION")

\* arr, l, h, k = _partition(np.copy(init_state[0]), init_state[1], init_state[2],
\* init_state[3]), and the environment put in the state the routine returned
ApplyPartition ==
    /\ Running
    /\ has_been_reset
    /\ trace = <<"PARTITION">>
    /\ LET r == _partition(init_state.scratchpad_ints, init_state.p1_pos,
                           init_state.p2_pos, init_state.p3_pos)
       IN  /\ scratchpad_ints' = r[1]
           /\ p1_pos' = r[2]
           /\ p2_pos' = r[3]
           /\ p3_pos' = r[4]
    /\ trace' = Append(trace, "_partition")
    /\ post' = NoPost
    /\ Returned("_partition", NoTask, "none")
    /\ UNCHANGED <<cfgvars, prog_stack, has_been_reset, init_state, shared>>

NextPartition ==
    \/ EnterPartition
    \/ ApplyPartition

SpecPartition == InitPartition /\ [][NextPartition]_vars

\* C29: _partition(arr, l, h, j) called with 0 <= l <= h <= length-1 and j = l
\* returns (arr', l, h, k) with l <= k <= h; arr' is a rearrangement of arr that
\* agrees with it outside l..h, arr'[k] is the pivot arr[h], the elements of
\* arr'[l..k-1] are <= the pivot and those of arr'[k+1..h] are > the pivot.
C29_PartitionIsLomuto ==
    last_call = "_partition" =>
        LET arr == init_state.scratchpad_ints
            l == init_state.p1_pos
            h == init_state.p2_pos
            k == p3_pos
        IN  /\ raised = "none"
            /\ p1_pos = l /\ p2_pos = h
            /\ l <= k /\ k <= h
            /\ Permutation(scratchpad_ints, arr)
            /\ \A i \in 0..(length - 1) : (i < l \/ i > h) => scratchpad_ints[i + 1] = arr[i + 1]
            /\ scratchpad_ints[k + 1] = arr[h + 1]
            /\ \A i \in l..(k - 1) : scratchpad_ints[i + 1] <= scratchpad_ints[k + 1]
            /\ \A i \in (k + 1)..h : scratchpad_ints[i + 1] > scratchpad_ints[k + 1]

\* the pivot 1 of [2,1,0,1] over 0..3 has gone to index 2, the 2 to its right
C29_Witness ==
    /\ last_call = "_partition" /\ length = 4
    /\ init_state.scratchpad_ints = <<2, 1, 0, 1>>
    /\ init_state.p1_pos = 0 /\ init_state.p2_pos = 3
    /\ scratchpad_ints = <<1, 0, 1, 2>>
    /\ p3_pos = 2

\* ------------------------------------- claims on the draws of reset_env
\* C30: at every length the constructor accepts, from 1 on, reset_env called
\* for a program that has a sampling rule returns normally: every resampling
\* loop has a draw it accepts, so it is left under fair draws, and no draw is
\* asked of an empty range.
C30_ResetReturns ==
    (last_call = "reset_env" /\ last_arg \in SamplingRules) =>
        /\ raised # "hang"
        /\ raised # "ValueError"
        /\ raised = "none"

\* ------------------------------------- claims on a reset_env that fails
\* a reset_env call has just raised NotImplementedError: the current task has
\* no branch in the chain of tests on its name
UnsupportedTaskStep ==
    last_call' = "reset_env" /\ raised' = "NotImplementedError"

\* C31: a reset_env call that fails with the unsupported-task error leaves the
\* environment exactly as it was before the call: the scratchpad, the
\* pointers, the stack (quicksort variant) and the has-been-reset flag are all
\* unchanged.
C31_FailedResetKeepsState ==
    [][UnsupportedTaskStep =>
         /\ scratchpad_ints' = scratchpad_ints
         /\ p1_pos' = p1_pos /\ p2_pos' = p2_pos /\ p3_pos' = p3_pos
         /\ prog_stack' = prog_stack
         /\ has_been_reset' = has_been_reset]_vars

\* what such a call does keep: the pointers and the has-been-reset flag, which
\* are assigned after the raise, and in ListEnv the stack, which it never
\* assigns
FailedResetKeepsPointersAndFlag ==
    [][UnsupportedTaskStep =>
         /\ p1_pos' = p1_pos /\ p2_pos' = p2_pos /\ p3_pos' = p3_pos
         /\ has_been_reset' = has_been_reset
         /\ ~Quick => prog_stack' = prog_stack]_vars

====
